---- MODULE Spec2Model ----
(***************************************************************************)
(* A model of cfgrib's unit converter (cfgrib/cfunits.py) and coordinate   *)
(* translator (cfgrib/cfcoords.py).                                        *)
(*                                                                         *)
(* Numbers are exact rationals <<n, d>> with d > 0 in lowest terms.  A     *)
(* scalar is [kind |-> "scalar", v |-> rational]; a coordinate (an xarray  *)
(* DataArray) is [kind |-> "array", name, attrs, dtype, dims, shape, vals] *)
(* where attrs is a function from the attribute keys present to strings    *)
(* and vals maps every index tuple of the shape to a rational.  A dataset  *)
(* is [coords |-> sequence of coordinates], in mapping order.              *)
(***************************************************************************)
EXTENDS Integers, Sequences, FiniteSets, TLC

VARIABLES
    source_units,   \* convert_units / are_convertible argument
    target_units,   \* convert_units / are_convertible argument
    value,          \* convert_units' data argument (a scalar)
    converted,      \* outcome of convert_units(value, target_units, source_units)
    convertible,    \* the answers of are_convertible(source_units, target_units) so far
    keep_attrs,     \* xarray's global keep_attrs option
    data0,          \* the dataset as the caller passed it
    data,           \* the dataset as the running call sees it
    applied,        \* roles translate has applied so far
    pc,             \* "idle", "running", "done" or "raised"
    error,          \* the exception raised, NoError when none
    last,           \* the latest step: which operation, on which dataset
    ret             \* what ensure_valid_time_present returned

vars == <<source_units, target_units, value, converted, convertible,
          keep_attrs, data0, data, applied, pc, error, last, ret>>

----------------------------------------------------------------------------
(* Exact rational arithmetic.                                              *)

Abs(n) == IF n < 0 THEN -n ELSE n

RECURSIVE Gcd(_, _)
Gcd(a, b) == IF b = 0 THEN a ELSE Gcd(b, a % b)

Norm(n, d) ==
    LET g == Gcd(Abs(n), Abs(d))
        s == IF d < 0 THEN -1 ELSE 1
    IN  <<(s * n) \div g, (s * d) \div g>>

Rat(n) == <<n, 1>>
RMul(p, q) == Norm(p[1] * q[1], p[2] * q[2])
RDiv(p, q) == Norm(p[1] * q[2], p[2] * q[1])
RAdd(p, q) == Norm(p[1] * q[2] + q[1] * p[2], p[2] * q[2])

Scalar(r) == [kind |-> "scalar", v |-> r]

\* an attribute dictionary with no key
NoAttrs == [k \in {} |-> ""]

----------------------------------------------------------------------------
(* cfunits.py                                                              *)

\* rules.items(): the groups of the pressure table in insertion order
PRESSURE_CONVERSION_RULES ==
    << [units |-> {"Pa", "pascal"}, factor |-> Rat(1)],
       [units |-> {"hPa", "hectopascal", "hpascal", "millibar", "mbar"},
        factor |-> Rat(100)],
       [units |-> {"decibar", "dbar"}, factor |-> Rat(10000)],
       [units |-> {"bar"}, factor |-> Rat(100000)],
       [units |-> {"atmosphere", "atm"}, factor |-> Rat(101325)] >>

RULE_TABLES == << PRESSURE_CONVERSION_RULES >>

\* the test of line 31
SeenIsWrongMut(seen) == seen > 2
SeenIsWrong(seen) == seen # 2

\* the loop of lines 24-30, from group i on
RECURSIVE ScanRules(_, _, _, _, _, _)
ScanRules(rules, i, src, tgt, cf, seen) ==
    IF i > Len(rules) THEN [conversion_factor |-> cf, seen |-> seen]
    ELSE LET g   == rules[i]
             cf1 == IF src \in g.units THEN RDiv(cf, g.factor) ELSE cf
             s1  == IF src \in g.units THEN seen + 1 ELSE seen
             cf2 == IF tgt \in g.units THEN RMul(cf1, g.factor) ELSE cf1
             s2  == IF tgt \in g.units THEN s1 + 1 ELSE s1
         IN  ScanRules(rules, i + 1, src, tgt, cf2, s2)

simple_conversion_factor(src, tgt, rules) ==
    LET r == ScanRules(rules, 1, src, tgt, Rat(1), 0)
    IN  IF SeenIsWrong(r.seen)
        THEN [kind |-> "ConversionError"]
        ELSE [kind |-> "ok", factor |-> r.conversion_factor]

\* data * factor: a Python number, or an xarray DataArray.  numpy refuses to
\* multiply datetime64 by a float and gives float64 for the other types but
\* timedelta64; xarray keeps the name and the coordinates of the array and
\* keeps its attributes only under keep_attrs.
Times(d, f, keep) ==
    IF d.kind = "scalar"
    THEN [kind |-> "ok", val |-> Scalar(RMul(d.v, f))]
    ELSE IF d.dtype = "datetime64[ns]"
    THEN [kind |-> "TypeError"]
    ELSE [kind |-> "ok",
          val |-> [d EXCEPT !.vals = [t \in DOMAIN d.vals |-> RMul(d.vals[t], f)],
                            !.dtype = IF @ = "timedelta64[ns]" THEN @ ELSE "float64",
                            !.attrs = IF keep THEN d.attrs ELSE NoAttrs]]

\* the call of line 42: the two units are passed in the opposite order
FactorForUnswapped(tgt, src, rules) == simple_conversion_factor(src, tgt, rules)
FactorFor(tgt, src, rules) == simple_conversion_factor(tgt, src, rules)

\* the loop of lines 40-45, from table i on
RECURSIVE TryTables(_, _, _, _, _)
TryTables(i, d, tgt, src, keep) ==
    IF i > Len(RULE_TABLES) THEN [kind |-> "ConversionError"]
    ELSE LET f == FactorFor(tgt, src, RULE_TABLES[i])
         IN  IF f.kind = "ok" THEN Times(d, f.factor, keep)
             ELSE TryTables(i + 1, d, tgt, src, keep)

convert_units(d, tgt, src, keep) ==
    IF tgt = src THEN [kind |-> "ok", val |-> d]
    ELSE TryTables(1, d, tgt, src, keep)

are_convertible(src, tgt) ==
    convert_units(Scalar(Rat(1)), src, tgt, FALSE).kind # "ConversionError"

----------------------------------------------------------------------------
(* The xarray operations cfcoords.py calls, on the dataset abstraction.    *)

Names(coords) == [i \in 1..Len(coords) |-> coords[i].name]
HasCoord(d, name) == \E i \in 1..Len(d.coords) : d.coords[i].name = name
\* data.coords[name]
CoordOf(d, name) ==
    d.coords[CHOOSE i \in 1..Len(d.coords) :
                 /\ d.coords[i].name = name
                 /\ \A j \in 1..(i - 1) : d.coords[j].name # name]
\* coord.size
Size(coord) == Cardinality(DOMAIN coord.vals)
\* data.dims: the dimension names of the dataset
Dims(d) == UNION {{d.coords[i].dims[k] : k \in 1..Len(d.coords[i].dims)} :
                  i \in 1..Len(d.coords)}

RenameDims(dims, old, new) ==
    [k \in 1..Len(dims) |-> IF dims[k] = old THEN new ELSE dims[k]]

\* data.rename({match: out_name}): the variable and the dimension of that name
Rename(d, match, out_name) ==
    [d EXCEPT !.coords =
        [i \in 1..Len(d.coords) |->
            [d.coords[i] EXCEPT
                !.name = IF @ = match THEN out_name ELSE @,
                !.dims = RenameDims(@, match, out_name)]]]

\* data.coords[name] = coord
SetCoord(d, name, coord) ==
    LET c == [coord EXCEPT !.name = name]
    IN  IF HasCoord(d, name)
        THEN [d EXCEPT !.coords =
                 [i \in 1..Len(d.coords) |->
                     IF d.coords[i].name = name THEN c ELSE d.coords[i]]]
        ELSE [d EXCEPT !.coords = Append(d.coords, c)]

\* data.coords[name].attrs[key] = val
SetAttr(d, name, key, val) ==
    [d EXCEPT !.coords =
        [i \in 1..Len(d.coords) |->
            IF d.coords[i].name = name
            THEN [d.coords[i] EXCEPT !.attrs =
                     [k \in DOMAIN @ \cup {key} |-> IF k = key THEN val ELSE @[k]]]
            ELSE d.coords[i]]]

----------------------------------------------------------------------------
(* cfcoords.py: the role registry and the per-role translation step.       *)

COORD_MODEL == [cf_type \in {} |-> NoAttrs]

\* TRANSLATORS.items(): the roles in registration order
TRANSLATORS ==
    << "latitude", "longitude", "forecast_reference_time", "forecast_period",
       "valid_time", "vertical_pressure", "realization" >>
Roles == {TRANSLATORS[i] : i \in 1..Len(TRANSLATORS)}

TIME_UNITS == "seconds since 1970-01-01T00:00:00+00:00"

\* the first argument bound by each functools.partial
default_out_name(cf_type) ==
    CASE cf_type = "latitude" -> "latitude"
      [] cf_type = "longitude" -> "longitude"
      [] cf_type = "forecast_reference_time" -> "time"
      [] cf_type = "forecast_period" -> "step"
      [] cf_type = "valid_time" -> "valid_time"
      [] cf_type = "vertical_pressure" -> "level"
      [] cf_type = "realization" -> "number"

\* the second argument bound by each functools.partial
default_units(cf_type) ==
    CASE cf_type = "latitude" -> "degrees_north"
      [] cf_type = "longitude" -> "degrees_east"
      [] cf_type = "forecast_reference_time" -> TIME_UNITS
      [] cf_type = "forecast_period" -> "h"
      [] cf_type = "valid_time" -> TIME_UNITS
      [] cf_type = "vertical_pressure" -> "hPa"
      [] cf_type = "realization" -> "1"

VALID_LAT_UNITS ==
    {"degrees_north", "degree_north", "degree_N", "degrees_N", "degreeN", "degreesN"}
VALID_LON_UNITS ==
    {"degrees_east", "degree_east", "degree_E", "degrees_E", "degreeE", "degreesE"}

\* attrs.get(key) == val
AttrIs(coord, key, val) == key \in DOMAIN coord.attrs /\ coord.attrs[key] = val

is_latitude(coord) ==
    "units" \in DOMAIN coord.attrs /\ coord.attrs["units"] \in VALID_LAT_UNITS
is_longitude(coord) ==
    "units" \in DOMAIN coord.attrs /\ coord.attrs["units"] \in VALID_LON_UNITS
is_forecast_reference_time(coord) ==
    AttrIs(coord, "standard_name", "forecast_reference_time")
is_forecast_period(coord) == AttrIs(coord, "standard_name", "forecast_period")
is_valid_time_any_dtype(coord) ==
    \/ AttrIs(coord, "standard_name", "time")
    \/ "standard_name" \notin DOMAIN coord.attrs
is_valid_time(coord) ==
    \/ AttrIs(coord, "standard_name", "time")
    \/ coord.dtype = "datetime64[ns]" /\ "standard_name" \notin DOMAIN coord.attrs
is_vertical_pressure(coord) ==
    are_convertible(IF "units" \in DOMAIN coord.attrs THEN coord.attrs["units"] ELSE "",
                    "Pa")
is_realization(coord) == AttrIs(coord, "standard_name", "realization")

\* the predicate each role is registered with
is_cf_type(cf_type, coord) ==
    CASE cf_type = "latitude" -> is_latitude(coord)
      [] cf_type = "longitude" -> is_longitude(coord)
      [] cf_type = "forecast_reference_time" -> is_forecast_reference_time(coord)
      [] cf_type = "forecast_period" -> is_forecast_period(coord)
      [] cf_type = "valid_time" -> is_valid_time(coord)
      [] cf_type = "vertical_pressure" -> is_vertical_pressure(coord)
      [] cf_type = "realization" -> is_realization(coord)

\* a predicate function is passed by the name of the role it is registered for
RECURSIVE MatchLoop(_, _, _)
MatchLoop(match_value_func, coords, i) ==
    IF i > Len(coords) THEN <<>>
    ELSE (IF is_cf_type(match_value_func, coords[i]) THEN <<coords[i].name>> ELSE <<>>)
         \o MatchLoop(match_value_func, coords, i + 1)

match_values(match_value_func, coords) == MatchLoop(match_value_func, coords, 1)

NoError == [type |-> "", msg |-> "", cf_type |-> ""]
Raise(type, msg, cf_type) == [type |-> type, msg |-> msg, cf_type |-> cf_type]

\* the test of line 32
MoreThanOneMut(matches) == Len(matches) > 2
MoreThanOne(matches) == Len(matches) > 1

\* the loop of lines 37-39
NameTakenMut(coords, out_name, match) == FALSE
NameTaken(coords, out_name, match) ==
    \E i \in 1..Len(coords) : coords[i].name = out_name /\ coords[i].name # match

\* the attribute key written at line 44
UNITS_KEY_WRITTEN == "untis"

\* lines 41-45, on the renamed dataset; an exception leaves the caller with the
\* dataset it passed, since rename returned a new object
ConvertCoord(d, renamed, out_name, units, keep) ==
    LET coord == CoordOf(renamed, out_name)
    IN  IF "units" \in DOMAIN coord.attrs
        THEN LET c == convert_units(coord, units, coord.attrs["units"], keep)
             IN  IF c.kind # "ok"
                 THEN [error |-> Raise(c.kind, "Cannot convert", ""), data |-> d]
                 ELSE [error |-> NoError,
                       data |-> SetAttr(SetCoord(renamed, out_name, c.val),
                                        out_name, UNITS_KEY_WRITTEN, units)]
        ELSE [error |-> NoError, data |-> renamed]

translator(cf_type, d, coord_model, keep) ==
    LET out_name == IF cf_type \in DOMAIN coord_model
                       /\ "out_name" \in DOMAIN coord_model[cf_type]
                    THEN coord_model[cf_type]["out_name"]
                    ELSE default_out_name(cf_type)
        units    == IF cf_type \in DOMAIN coord_model
                       /\ "units" \in DOMAIN coord_model[cf_type]
                    THEN coord_model[cf_type]["units"]
                    ELSE default_units(cf_type)
        matches  == match_values(cf_type, d.coords)
    IN  IF MoreThanOne(matches)
        THEN [error |-> Raise("ValueError", "Found more than one CF coordinate with type",
                              cf_type),
              data |-> d]
        ELSE IF matches = <<>>
        THEN [error |-> NoError, data |-> d]
        ELSE IF NameTaken(d.coords, out_name, matches[1])
        THEN [error |-> Raise("ValueError", "Found non CF compliant coordinate with type",
                              cf_type),
              data |-> d]
        ELSE ConvertCoord(d, Rename(d, matches[1], out_name), out_name, units, keep)

translate(d, coord_model, keep) ==
    LET RECURSIVE Loop(_, _)
        Loop(i, cur) ==
            IF i > Len(TRANSLATORS) THEN [error |-> NoError, data |-> cur]
            ELSE LET r == translator(TRANSLATORS[i], cur, coord_model, keep)
                 IN  IF r.error # NoError THEN r ELSE Loop(i + 1, r.data)
    IN  Loop(1, d)

----------------------------------------------------------------------------
(* cfcoords.py: deriving valid_time and promoting it to a dimension.       *)

Range(seq) == {seq[k] : k \in 1..Len(seq)}
Pos(seq, x) == CHOOSE k \in 1..Len(seq) : seq[k] = x

RECURSIVE IndexTuples(_)
IndexTuples(shape) ==
    IF shape = <<>> THEN {<<>>}
    ELSE {<<i>> \o t : i \in 1..Head(shape), t \in IndexTuples(Tail(shape))}

\* numpy's result type of a + b; "TypeError" when numpy refuses the operands
SumDtype(x, y) ==
    LET both == {x, y}
    IN  IF "datetime64[ns]" \in both
        THEN IF x = y \/ "float64" \in both THEN "TypeError" ELSE "datetime64[ns]"
        ELSE IF "timedelta64[ns]" \in both
        THEN IF "float64" \in both THEN "TypeError" ELSE "timedelta64[ns]"
        ELSE IF "float64" \in both THEN "float64" ELSE "int64"

\* a + b on two DataArrays: xarray broadcasts by dimension name, the result
\* has a's dimensions followed by b's new ones, and a's attributes only under
\* keep_attrs
Plus(a, b, keep) ==
    LET extra  == SelectSeq(b.dims, LAMBDA x : x \notin Range(a.dims))
        dimsR  == a.dims \o extra
        shapeR == a.shape \o [k \in 1..Len(extra) |-> b.shape[Pos(b.dims, extra[k])]]
        dtype  == SumDtype(a.dtype, b.dtype)
        Sel(t, dims) == [k \in 1..Len(dims) |-> t[Pos(dimsR, dims[k])]]
    IN  IF dtype = "TypeError" THEN [kind |-> "TypeError"]
        ELSE [kind |-> "ok",
              val |-> [kind |-> "array", name |-> a.name,
                       attrs |-> IF keep THEN a.attrs ELSE NoAttrs,
                       dtype |-> dtype, dims |-> dimsR, shape |-> shapeR,
                       vals |-> [t \in IndexTuples(shapeR) |->
                                    RAdd(a.vals[Sel(t, a.dims)], b.vals[Sel(t, b.dims)])]]]

\* the attribute written at line 151
TagValidTime(d, valid_time) == SetAttr(d, valid_time, "standard_name", "time")

\* the test of line 142
NoTimes(times) == times = <<>>

\* lines 144-151
DeriveValidTimeNoStep(d, valid_time, times, steps, keep) ==
    [error |-> NoError,
     data |-> TagValidTime(SetCoord(d, valid_time, CoordOf(d, times[1])), valid_time),
     ret |-> <<valid_time, times[1], "">>]
DeriveValidTime(d, valid_time, times, steps, keep) ==
    IF steps # <<>>
    THEN LET sum == Plus(CoordOf(d, times[1]), CoordOf(d, steps[1]), keep)
         IN  IF sum.kind # "ok"
             THEN [error |-> Raise(sum.kind, "unsupported operand types", ""),
                   data |-> d, ret |-> <<"", "", "">>]
             ELSE [error |-> NoError,
                   data |-> TagValidTime(SetCoord(d, valid_time, sum.val), valid_time),
                   ret |-> <<valid_time, times[1], steps[1]>>]
    ELSE [error |-> NoError,
          data |-> TagValidTime(SetCoord(d, valid_time, CoordOf(d, times[1])), valid_time),
          ret |-> <<valid_time, times[1], "">>]

ensure_valid_time_present(d, valid_time_name, keep) ==
    LET valid_times == match_values("valid_time", d.coords)
        times       == match_values("forecast_reference_time", d.coords)
        steps       == match_values("forecast_period", d.coords)
    IN  IF valid_times = <<>>
        THEN IF NoTimes(times)
             THEN [error |-> Raise("ValueError",
                                   "Not enough information to ensure a 'valid_time'.", ""),
                   data |-> d, ret |-> <<"", "", "">>]
             ELSE DeriveValidTime(d, valid_time_name, times, steps, keep)
        ELSE [error |-> NoError, data |-> d, ret |-> <<valid_times[1], "", "">>]

\* data.swap_dims({old: new}): xarray wants old to be a dimension and new to
\* be a one-dimensional variable along it
swap_dims(d, old, new) ==
    IF old \notin Dims(d)
    THEN [error |-> Raise("ValueError", "cannot swap from a non-existing dimension", ""),
          data |-> d]
    ELSE IF CoordOf(d, new).dims # <<old>>
    THEN [error |-> Raise("ValueError", "replacement is not a 1D variable along the old dimension", ""),
          data |-> d]
    ELSE [error |-> NoError,
          data |-> [d EXCEPT !.coords =
                      [i \in 1..Len(d.coords) |->
                          [d.coords[i] EXCEPT !.dims = RenameDims(@, old, new)]]]]

KeyError(name) == Raise("KeyError", name, "")

\* lines 160-165, on what ensure_valid_time_present left and returned
PromoteValidTime(pdata, valid_time, time, step) ==
    IF valid_time \notin Dims(pdata)
    THEN IF ~HasCoord(pdata, time)
         THEN [error |-> KeyError(time), data |-> pdata]
         ELSE IF Size(CoordOf(pdata, time)) = Size(CoordOf(pdata, valid_time))
         THEN swap_dims(pdata, time, valid_time)
         ELSE IF ~HasCoord(pdata, step)
         THEN [error |-> KeyError(step), data |-> pdata]
         ELSE IF Size(CoordOf(pdata, step)) = Size(CoordOf(pdata, step))
         THEN swap_dims(pdata, step, valid_time)
         ELSE [error |-> NoError, data |-> pdata]
    ELSE [error |-> NoError, data |-> pdata]

\* an exception of ensure_valid_time_present propagates
AfterPresent(p) ==
    IF p.error # NoError THEN [error |-> p.error, data |-> p.data]
    ELSE PromoteValidTime(p.data, p.ret[1], p.ret[2], p.ret[3])

ensure_valid_time(d, keep) ==
    AfterPresent(ensure_valid_time_present(d, "valid_time", keep))

----------------------------------------------------------------------------
(* The inputs: unit strings, scalars and datasets.                         *)

MaxValue == 2
MaxCoords == 2

\* every alias of the pressure table, and strings that are in no group
\* (another quantity, the empty string, another letter case)
Aliases == UNION {PRESSURE_CONVERSION_RULES[i].units :
                  i \in 1..Len(PRESSURE_CONVERSION_RULES)}
UnitStrings == Aliases \cup {"m", "", "hpa", "degrees_north"}

Values == {Scalar(Rat(n)) : n \in (-MaxValue)..MaxValue}

Vals(shape, ints) ==
    [t \in IndexTuples(shape) |-> Rat(ints[IF shape = <<>> THEN 1 ELSE t[1]])]

Coord(name, attrs, dtype, dims, ints) ==
    [kind |-> "array", name |-> name, attrs |-> attrs, dtype |-> dtype,
     dims |-> dims, shape |-> IF dims = <<>> THEN <<>> ELSE <<Len(ints)>>,
     vals |-> Vals(IF dims = <<>> THEN <<>> ELSE <<Len(ints)>>, ints)]

Units(u) == [k \in {"units"} |-> u]
Std(n) == [k \in {"standard_name"} |-> n]
StdUnits(n, u) == [k \in {"standard_name", "units"} |->
                      IF k = "units" THEN u ELSE n]

\* the coordinates datasets are drawn from: for every role one that matches
\* it (for latitude and vertical pressure also under another spelling of the
\* unit), coordinates that match no role, and coordinates that already bear
\* a canonical name
Pool ==
    << Coord("lat", Units("degrees_north"), "float64", <<"lat">>, <<10, 20>>),
       Coord("g0_lat", Units("degree_north"), "float64", <<"g0_lat">>, <<45, 50>>),
       Coord("lon", Units("degrees_east"), "float64", <<"lon">>, <<0, 90>>),
       Coord("t", Std("forecast_reference_time"), "datetime64[ns]", <<"t">>, <<0, 6>>),
       Coord("time", StdUnits("forecast_reference_time", TIME_UNITS), "int64",
             <<>>, <<100>>),
       Coord("step", Std("forecast_period"), "timedelta64[ns]", <<"step">>,
             <<0, 1, 2>>),
       Coord("time", StdUnits("forecast_period", "h"), "int64", <<"t">>, <<3, 9>>),
       Coord("valid_time", Std("time"), "datetime64[ns]", <<"valid_time">>, <<3, 15>>),
       Coord("vtime", NoAttrs, "datetime64[ns]", <<"t">>, <<5, 7>>),
       Coord("lev", Units("Pa"), "float64", <<"lev">>, <<100000, 50000>>),
       Coord("level", Units("millibar"), "float64", <<"level">>, <<850, 500>>),
       Coord("number", StdUnits("realization", "1"), "int64", <<"number">>, <<0, 1>>),
       Coord("x", NoAttrs, "float64", <<"x">>, <<1, 2>>),
       Coord("latitude", NoAttrs, "float64", <<>>, <<7>>),
       Coord("odd", StdUnits("air_pressure", "Pa"), "datetime64[ns]", <<"odd">>, <<1>>),
       Coord("valid_time", Std("height"), "float64", <<"x">>, <<4, 8>>),
       Coord("plev", StdUnits("air_pressure", "Pa"), "float64", <<"plev">>, <<70000>>) >>

RECURSIVE Picks(_)
Picks(n) ==
    IF n = 0 THEN {<<>>}
    ELSE Picks(n - 1) \cup
         {Append(s, c) : s \in {q \in Picks(n - 1) : Len(q) = n - 1},
                         c \in Range(Pool)}

\* the datasets of at most MaxCoords coordinates; a mapping has unique keys
Datasets ==
    {[coords |-> s] : s \in {q \in Picks(MaxCoords) :
        \A i, j \in 1..Len(q) : i # j => q[i].name # q[j].name}}

NoData == [coords |-> <<>>]
NoLast == [op |-> "", cf_type |-> "", before |-> NoData]
NoRet == <<"", "", "">>

----------------------------------------------------------------------------
(* The unit converter's calls.                                             *)

InitUnits ==
    /\ source_units \in UnitStrings
    /\ target_units \in UnitStrings
    /\ value \in Values
    /\ converted = [kind |-> "none"]
    /\ convertible = {}
    /\ keep_attrs = FALSE
    /\ data0 = NoData /\ data = NoData /\ applied = {}
    /\ pc = "idle" /\ error = NoError /\ last = NoLast /\ ret = NoRet

\* convert_units(value, target_units, source_units)
ConvertUnits ==
    /\ converted.kind = "none"
    /\ converted' = convert_units(value, target_units, source_units, keep_attrs)
    /\ UNCHANGED <<source_units, target_units, value, convertible, keep_attrs,
                   data0, data, applied, pc, error, last, ret>>

\* are_convertible(source_units, target_units)
AreConvertible ==
    /\ convertible = {}
    /\ convertible' = {are_convertible(source_units, target_units)}
    /\ UNCHANGED <<source_units, target_units, value, converted, keep_attrs,
                   data0, data, applied, pc, error, last, ret>>

NextUnits == ConvertUnits \/ AreConvertible
SpecUnits == InitUnits /\ [][NextUnits]_vars

----------------------------------------------------------------------------
(* translate: one step per registered role.                                *)

InitData ==
    /\ source_units = "" /\ target_units = "" /\ value = Scalar(Rat(0))
    /\ converted = [kind |-> "none"] /\ convertible = {}
    /\ keep_attrs \in BOOLEAN
    /\ data0 \in Datasets
    /\ data = data0
    /\ applied = {}
    /\ pc = "idle" /\ error = NoError /\ last = NoLast /\ ret = NoRet

\* data = translator(cf_name, data, coord_model=coord_model), line 131
ApplyRole(cf_type) ==
    LET r == translator(cf_type, data, COORD_MODEL, keep_attrs)
    IN  /\ data' = r.data
        /\ error' = r.error
        /\ applied' = IF r.error = NoError THEN applied \cup {cf_type} ELSE applied
        /\ pc' = IF r.error # NoError THEN "raised"
                 ELSE IF applied \cup {cf_type} = Roles THEN "done" ELSE "running"
        /\ UNCHANGED <<source_units, target_units, value, converted, convertible,
                       keep_attrs, data0, ret>>

\* translate with the default registry: the roles in registration order
Translate ==
    /\ pc \in {"idle", "running"}
    /\ ApplyRole(TRANSLATORS[Cardinality(applied) + 1])
    /\ last' = [op |-> "translator",
                cf_type |-> TRANSLATORS[Cardinality(applied) + 1], before |-> data]

Spec == InitData /\ [][Translate]_vars

\* the coordinates the datasets of the ordering question are drawn from
OrderPool == {Pool[i] : i \in {1, 4, 5, 6, 7, 9, 11, 14, 15, 17}}

InitOrder ==
    /\ InitData
    /\ Range(data0.coords) \subseteq OrderPool

\* translate with a registry that holds the seven roles in any order
TranslateAnyOrder ==
    /\ pc \in {"idle", "running"}
    /\ \E cf_type \in Roles \ applied : ApplyRole(cf_type)
    /\ UNCHANGED last

SpecOrder == InitOrder /\ [][TranslateAnyOrder]_vars

----------------------------------------------------------------------------
(* ensure_valid_time_present and ensure_valid_time.                        *)

\* ensure_valid_time_present(data)
EnsureValidTimePresent ==
    /\ pc = "idle"
    /\ LET r == ensure_valid_time_present(data, "valid_time", keep_attrs)
       IN  /\ last' = [op |-> "ensure_valid_time_present", cf_type |-> "",
                       before |-> data]
           /\ data' = r.data
           /\ error' = r.error
           /\ ret' = r.ret
           /\ pc' = IF r.error # NoError THEN "raised" ELSE "present"
    /\ UNCHANGED <<source_units, target_units, value, converted, convertible,
                   keep_attrs, data0, applied>>

\* ensure_valid_time(data), on a fresh dataset or following
\* ensure_valid_time_present
EnsureValidTime ==
    /\ pc \in {"idle", "present"}
    /\ LET r == ensure_valid_time(data, keep_attrs)
       IN  /\ last' = [op |-> "ensure_valid_time", cf_type |-> "", before |-> data]
           /\ data' = r.data
           /\ error' = r.error
           /\ pc' = IF r.error # NoError THEN "raised" ELSE "done"
    /\ UNCHANGED <<source_units, target_units, value, converted, convertible,
                   keep_attrs, data0, applied, ret>>

NextValidTime == EnsureValidTimePresent \/ EnsureValidTime
SpecValidTime == InitData /\ [][NextValidTime]_vars

----------------------------------------------------------------------------
(* The claims about the unit converter.                                    *)

\* the factor the rule table gives the group a unit string belongs to
FactorOf(u) ==
    PRESSURE_CONVERSION_RULES[
        CHOOSE i \in 1..Len(PRESSURE_CONVERSION_RULES) :
            u \in PRESSURE_CONVERSION_RULES[i].units].factor

\* C1: when the source and the target unit each belong to a group of the
\* pressure table, convert_units(x, target, source) returns x multiplied by
\* factor(source group) / factor(target group); convert_units(1, 'hPa', 'Pa')
\* is 1/100 and convert_units(1, 'Pa', 'hPa') is 100.
C1_FactorRatio ==
    /\ (converted.kind # "none" /\ source_units \in Aliases /\ target_units \in Aliases)
         => converted = [kind |-> "ok",
                         val |-> Scalar(RMul(value.v, RDiv(FactorOf(source_units),
                                                           FactorOf(target_units))))]
    /\ (converted.kind # "none" /\ value = Scalar(Rat(1))
          /\ target_units = "hPa" /\ source_units = "Pa")
         => converted = [kind |-> "ok", val |-> Scalar(<<1, 100>>)]
    /\ (converted.kind # "none" /\ value = Scalar(Rat(1))
          /\ target_units = "Pa" /\ source_units = "hPa")
         => converted = [kind |-> "ok", val |-> Scalar(<<100, 1>>)]

C1_Witness ==
    /\ value = Scalar(Rat(1)) /\ target_units = "hPa" /\ source_units = "Pa"
    /\ converted = [kind |-> "ok", val |-> Scalar(<<1, 100>>)]

\* C2 as stated: a unit string in no group is unconvertible against every
\* unit string, in either argument position: are_convertible is false and
\* convert_units fails with ConversionError.
C2_UnknownNeverConvertible ==
    (source_units \notin Aliases \/ target_units \notin Aliases)
        => /\ TRUE \notin convertible
           /\ converted.kind \in {"none", "ConversionError"}

\* C2 amended: a unit string in no group is unconvertible against every
\* other unit string, in either argument position (are_convertible is false,
\* convert_units fails with ConversionError); against itself
\* are_convertible is true and convert_units returns its argument.
\* are_convertible('m', 'Pa') is false and are_convertible('hPa', 'Pa') true.
C2_UnknownConvertibleOnlyToItself ==
    /\ ((source_units \notin Aliases \/ target_units \notin Aliases)
          /\ source_units # target_units)
         => /\ TRUE \notin convertible
            /\ converted.kind \in {"none", "ConversionError"}
    /\ (source_units \notin Aliases /\ source_units = target_units)
         => /\ FALSE \notin convertible
            /\ converted.kind # "none" => converted = [kind |-> "ok", val |-> value]
    /\ (source_units = "m" /\ target_units = "Pa") => TRUE \notin convertible
    /\ (source_units = "hPa" /\ target_units = "Pa") => FALSE \notin convertible

C2_Witness ==
    /\ source_units = "m" /\ target_units = "Pa"
    /\ convertible = {FALSE}
    /\ converted.kind = "ConversionError"

----------------------------------------------------------------------------
(* The claims about translate.                                             *)

MatchesOf(cf_type, d) == match_values(cf_type, d.coords)
Finished == pc \in {"done", "raised"}
UniqueNames(d) ==
    \A i, j \in 1..Len(d.coords) : i # j => d.coords[i].name # d.coords[j].name

\* C3: on a dataset with exactly one coordinate, whose units attribute is an
\* accepted latitude spelling other than 'degrees_north', translate
\* completes without error, the coordinate is then named 'latitude', its
\* units attribute is 'degrees_north' and its values are unchanged.
C3_LatitudeSpellingTranslated ==
    (/\ Finished
     /\ Len(data0.coords) = 1
     /\ "units" \in DOMAIN data0.coords[1].attrs
     /\ data0.coords[1].attrs["units"] \in VALID_LAT_UNITS \ {"degrees_north"})
        => /\ pc = "done"
           /\ Len(data.coords) = 1
           /\ data.coords[1].name = "latitude"
           /\ AttrIs(data.coords[1], "units", "degrees_north")
           /\ data.coords[1].vals = data0.coords[1].vals

\* C4: when more than one coordinate satisfies a role's predicate at the
\* moment the role is applied, the step raises the classification-conflict
\* error naming that role and has renamed and converted nothing.
C4_RoleConflictRaised ==
    (last.op = "translator" /\ Len(MatchesOf(last.cf_type, last.before)) > 1)
        => /\ pc = "raised"
           /\ error = Raise("ValueError", "Found more than one CF coordinate with type",
                            last.cf_type)
           /\ data = last.before

C4_Witness ==
    /\ last.op = "translator" /\ last.cf_type = "latitude"
    /\ Len(MatchesOf("latitude", last.before)) = 2
    /\ pc = "raised"

\* C5: when exactly one coordinate matches the role, the step raises the
\* naming-conflict error if and only if a different coordinate already bears
\* the canonical name; otherwise the matched coordinate is renamed to the
\* canonical name (a unit that cannot be converted is the only other
\* failure).  While translate runs and when it returns, the number of
\* coordinates is the caller's and the coordinate names are unique.
C5_NamingConflictIffNameTaken ==
    /\ (last.op = "translator" /\ Len(MatchesOf(last.cf_type, last.before)) = 1)
         => LET before   == last.before
                match    == MatchesOf(last.cf_type, before)[1]
                out_name == default_out_name(last.cf_type)
                k        == CHOOSE i \in 1..Len(before.coords) :
                                before.coords[i].name = match
                taken    == \E i \in 1..Len(before.coords) :
                                i # k /\ before.coords[i].name = out_name
                conflict == /\ pc = "raised"
                            /\ error = Raise("ValueError",
                                   "Found non CF compliant coordinate with type",
                                   last.cf_type)
            IN  /\ conflict <=> taken
                /\ ~taken => \/ pc = "raised" /\ error.type \in {"ConversionError", "TypeError"}
                             \/ pc # "raised" /\ data.coords[k].name = out_name
    /\ pc # "raised" => Len(data.coords) = Len(data0.coords) /\ UniqueNames(data)

C5_Witness ==
    /\ last.op = "translator" /\ last.cf_type = "latitude"
    /\ Len(MatchesOf("latitude", last.before)) = 1
    /\ HasCoord(last.before, "latitude")
    /\ MatchesOf("latitude", last.before)[1] # "latitude"
    /\ pc = "raised"

\* the value convert_units is documented to give a number of unit src in
\* unit tgt
Converted(r, tgt, src) ==
    IF tgt = src THEN r ELSE RMul(r, RDiv(FactorOf(src), FactorOf(tgt)))

\* C10: after a role step that matched exactly one coordinate whose units
\* attribute is convertible to the canonical unit, the renamed coordinate
\* holds the original values converted to the canonical unit and its 'units'
\* attribute is the canonical unit string.
C10_UnitsDescribeValues ==
    (/\ last.op = "translator"
     /\ Len(MatchesOf(last.cf_type, last.before)) = 1
     /\ LET c == CoordOf(last.before, MatchesOf(last.cf_type, last.before)[1])
        IN  /\ "units" \in DOMAIN c.attrs
            /\ c.dtype # "datetime64[ns]"
            /\ \/ c.attrs["units"] = default_units(last.cf_type)
               \/ {c.attrs["units"], default_units(last.cf_type)} \subseteq Aliases
     /\ ~NameTaken(last.before.coords, default_out_name(last.cf_type),
                   MatchesOf(last.cf_type, last.before)[1]))
        => LET c     == CoordOf(last.before, MatchesOf(last.cf_type, last.before)[1])
               units == default_units(last.cf_type)
           IN  /\ pc # "raised"
               /\ HasCoord(data, default_out_name(last.cf_type))
               /\ LET n == CoordOf(data, default_out_name(last.cf_type))
                  IN  /\ AttrIs(n, "units", units)
                      /\ n.vals = [t \in DOMAIN c.vals |->
                                      Converted(c.vals[t], units, c.attrs["units"])]

\* C9 as stated: when every coordinate satisfies at most one role predicate,
\* translate gives the same outcome (the same dataset, or a failure) under
\* every ordering of the seven roles as under the registration order.
AtMostOneRoleEach(d) ==
    \A i \in 1..Len(d.coords) :
        Cardinality({r \in Roles : is_cf_type(r, d.coords[i])}) <= 1

SameAsRegistrationOrder ==
    LET r == translate(data0, COORD_MODEL, keep_attrs)
    IN  /\ pc = "raised" <=> r.error # NoError
        /\ pc = "done" => data = r.data

C9_OrderInsignificant ==
    (Finished /\ AtMostOneRoleEach(data0)) => SameAsRegistrationOrder

\* C9 amended: when every coordinate satisfies at most one role predicate
\* and no coordinate that satisfies a role's predicate bears the canonical
\* name of another role, translate gives the same outcome (the same dataset,
\* or a failure) under every ordering of the seven roles.
NoForeignCanonicalName(d) ==
    \A i \in 1..Len(d.coords) : \A r, q \in Roles :
        (is_cf_type(r, d.coords[i]) /\ q # r)
            => d.coords[i].name # default_out_name(q)

C9_OrderInsignificantUnlessNamesCross ==
    (Finished /\ AtMostOneRoleEach(data0) /\ NoForeignCanonicalName(data0))
        => SameAsRegistrationOrder

C9_Witness ==
    /\ pc = "done"
    /\ AtMostOneRoleEach(data0) /\ NoForeignCanonicalName(data0)
    /\ Len(data0.coords) = 2
    /\ \A i \in 1..2 : data.coords[i].name # data0.coords[i].name

----------------------------------------------------------------------------
(* The claims about valid_time.                                            *)

ValidTimes(d) == match_values("valid_time", d.coords)
Times_(d) == match_values("forecast_reference_time", d.coords)
Steps(d) == match_values("forecast_period", d.coords)

\* v is a + b element-wise, broadcast over the dimensions of both
IsBroadcastSum(v, a, b) ==
    /\ Range(v.dims) = Range(a.dims) \cup Range(b.dims)
    /\ \A t \in DOMAIN v.vals :
          v.vals[t] = RAdd(a.vals[[k \in 1..Len(a.dims) |-> t[Pos(v.dims, a.dims[k])]]],
                           b.vals[[k \in 1..Len(b.dims) |-> t[Pos(v.dims, b.dims[k])]]])
    /\ Size(v) = Cardinality(IndexTuples(v.shape))
    /\ \A k \in 1..Len(v.dims) :
          v.shape[k] = IF v.dims[k] \in Range(a.dims)
                       THEN a.shape[Pos(a.dims, v.dims[k])]
                       ELSE b.shape[Pos(b.dims, v.dims[k])]

\* C6: on a dataset with no valid-time coordinate, ensure_valid_time_present
\* raises the derivation error exactly when there is no
\* forecast-reference-time coordinate; otherwise the coordinate under the
\* derived name is reference time + period element-wise when a period
\* coordinate exists (both returned names non-empty), is the reference time
\* when none exists (empty period name), and satisfies the valid-time
\* predicate.
C6_ValidTimeDerived ==
    (last.op = "ensure_valid_time_present" /\ ValidTimes(last.before) = <<>>)
        => LET b == last.before
           IN  /\ (pc = "raised") <=> (Times_(b) = <<>>)
               /\ pc = "raised"
                    => error = Raise("ValueError",
                           "Not enough information to ensure a 'valid_time'.", "")
               /\ Times_(b) # <<>>
                    => /\ HasCoord(data, "valid_time")
                       /\ is_valid_time(CoordOf(data, "valid_time"))
                       /\ ret[1] = "valid_time"
                       /\ ret[2] = Times_(b)[1] /\ ret[2] # ""
                       /\ IF Steps(b) # <<>>
                          THEN /\ ret[3] = Steps(b)[1] /\ ret[3] # ""
                               /\ IsBroadcastSum(CoordOf(data, "valid_time"),
                                                 CoordOf(b, ret[2]), CoordOf(b, ret[3]))
                          ELSE /\ ret[3] = ""
                               /\ CoordOf(data, "valid_time").vals = CoordOf(b, ret[2]).vals
                               /\ CoordOf(data, "valid_time").dims = CoordOf(b, ret[2]).dims

C6_Witness ==
    /\ last.op = "ensure_valid_time_present" /\ ValidTimes(last.before) = <<>>
    /\ pc = "present"
    /\ ret = <<"valid_time", "t", "step">>
    /\ Size(CoordOf(data, "valid_time")) = 6
    /\ CoordOf(data, "valid_time").vals[<<2, 3>>] = Rat(8)

\* C7: when a valid-time coordinate already exists,
\* ensure_valid_time_present leaves the dataset as it is and returns that
\* coordinate's name with the names of the existing forecast-reference-time
\* and forecast-period coordinates, each empty only when the dataset has no
\* such coordinate; ensure_valid_time then looks the names up without
\* failing.
C7_ExistingNamesReturned ==
    /\ (last.op = "ensure_valid_time_present" /\ ValidTimes(last.before) # <<>>)
         => /\ pc = "present"
            /\ data = last.before
            /\ ret[1] = ValidTimes(last.before)[1]
            /\ IF Times_(last.before) = <<>> THEN ret[2] = ""
               ELSE ret[2] \in Range(Times_(last.before))
            /\ IF Steps(last.before) = <<>> THEN ret[3] = ""
               ELSE ret[3] \in Range(Steps(last.before))
    /\ (last.op = "ensure_valid_time" /\ ValidTimes(last.before) # <<>>
          /\ Times_(last.before) # <<>> /\ Steps(last.before) # <<>>)
         => ~(pc = "raised" /\ error.type = "KeyError")

\* C8: ensure_valid_time, when valid_time is not a dimension, swaps the
\* reference-time dimension for valid_time if their element counts are
\* equal, else swaps the period dimension for valid_time only if
\* valid_time's count equals the period coordinate's, and otherwise returns
\* the dataset unchanged.
C8_SwapOnlyOnEqualCounts ==
    (last.op = "ensure_valid_time" /\ ValidTimes(last.before) = <<>>
       /\ Times_(last.before) # <<>> /\ Steps(last.before) # <<>>)
        => LET p  == ensure_valid_time_present(last.before, "valid_time", keep_attrs)
               vt == CoordOf(p.data, p.ret[1])
               tm == CoordOf(p.data, p.ret[2])
               st == CoordOf(p.data, p.ret[3])
               out == [error |-> error, data |-> data]
           IN  IF p.ret[1] \in Dims(p.data) THEN out = [error |-> NoError, data |-> p.data]
               ELSE IF Size(tm) = Size(vt) THEN out = swap_dims(p.data, p.ret[2], p.ret[1])
               ELSE IF Size(vt) = Size(st) THEN out = swap_dims(p.data, p.ret[3], p.ret[1])
               ELSE out = [error |-> NoError, data |-> p.data]

====
